---- MODULE Spec2Model ----
(***************************************************************************)
(* Invoice generator (src/main.py): the invoices table, the PDF files of   *)
(* DATA_DIR, the per-session flash message and the three request handlers  *)
(* dashboard, create_invoice and download_invoice.                         *)
(*                                                                         *)
(* The handlers are `async def` bodies without any await, so the event     *)
(* loop runs each of them to completion before it starts another request:  *)
(* pc = "idle" guards the start of every handler.  create_invoice is split *)
(* at its commits and calls so that each persisted intermediate state of   *)
(* the table is a state of the model; every step of it can raise.  A       *)
(* db.commit() that raises stores nothing of the pending changes.          *)
(***************************************************************************)
EXTENDS Integers, Sequences, FiniteSets, TLC

\* ---------------------------------------------------------------- bounds
MaxInvoices == 2
MaxTime == 2

\* the browser sessions (signed cookies) that send requests
Sessions == {"s1"}
\* readings of datetime.now(): naive local wall-clock time, which may repeat a
\* value or step back between two requests
Times == 1..MaxTime
\* uuid4 file names, f"{uuid.uuid4()}.pdf"
FileName(i) == "uuid" \o ToString(i) \o ".pdf"
Names == {FileName(i) : i \in 1..MaxInvoices}

None == "None"
FlashSuccess == "Invoice successfully created and sent"
FlashError == "Error generating invoice. Please check logs."

\* outcomes of generate_pdf
PdfOutcomes == {"ok", "template_error", "open_error", "convert_error"}

VARIABLES
    invoices,    \* the committed rows of table invoices: id -> row
    files,       \* DATA_DIR: file name -> bytes
    flash,       \* request.session["flash_message"] of every session
    issued,      \* the file names uuid4 has produced so far
    deleted,     \* the file names removed from DATA_DIR out of band
    pc,          \* position of the running create_invoice, or "idle"
    req,         \* locals of the running create_invoice
    resp         \* the last completed request and its response

vars == <<invoices, files, flash, issued, deleted, pc, req, resp>>

\* ------------------------------------------------------- pure helpers

Max(S) == CHOOSE m \in S : \A x \in S : x <= m

\* a key assignment that hands out the greatest key in use again
NextIdReuse(rows) == IF DOMAIN rows = {} THEN 1 ELSE Max(DOMAIN rows)

\* Integer primary key: SQLite assigns max(rowid) + 1
NextId(rows) == IF DOMAIN rows = {} THEN 1 ELSE Max(DOMAIN rows) + 1

\* an Invoice(...) without status=, which takes the column default
NewInvoiceDefault(t) == [created_at |-> t, filename |-> None, status |-> "Draft"]

\* Invoice(..., status="Processing", created_at=datetime.now()); filename unset
NewInvoice(t) == [created_at |-> t, filename |-> None, status |-> "Processing"]

\* a first commit of the filename alone, the status following the notification
MarkSentNameOnly(row, name) == [row EXCEPT !.filename = name]

\* new_invoice.filename = pdf_filename; new_invoice.status = "Sent"
MarkSent(row, name) == [row EXCEPT !.filename = name, !.status = "Sent"]

\* new_invoice.status = "Error"
MarkError(row) == [row EXCEPT !.status = "Error"]

\* a store that keeps nothing but the entry just written
PutOnly(f, k, v) == [x \in {k} |-> v]

Put(f, k, v) == [x \in DOMAIN f \cup {k} |-> IF x = k THEN v ELSE f[x]]
Remove(f, k) == [x \in DOMAIN f \ {k} |-> f[x]]

\* a file name that does not vary from one call to the next
Uuid4Fixed(used) == FileName(1)

\* uuid.uuid4(): a name that was never produced before
Uuid4(used) ==
    LET k == CHOOSE i \in 1..(Cardinality(used) + 1) : FileName(i) \notin used
    IN FileName(k)

NoBytes == [kind |-> "none", invoice |-> 0]
PdfBytes(id) == [kind |-> "pdf", invoice |-> id]
PartialBytes(id) == [kind |-> "partial", invoice |-> id]

\* a generate_pdf that returns its file name without having written the file
WriteFileNever(store, name, id, outcome) == store

\* DATA_DIR after generate_pdf ran with the given outcome: open(file_path, "wb")
\* creates the file before pisa.CreatePDF converts into it.
WriteFile(store, name, id, outcome) ==
    CASE outcome = "ok" -> Put(store, name, PdfBytes(id))
      [] outcome = "convert_error" -> Put(store, name, PartialBytes(id))
      [] OTHER -> store

\* db.query(Invoice).order_by(Invoice.created_at.desc()).all(): every order of
\* all rows that is descending in created_at (SQL leaves the order of ties open)
OrderByCreatedAtDesc(rows) ==
    LET n == Cardinality(DOMAIN rows)
    IN {l \in [1..n -> DOMAIN rows] :
          /\ \A i, j \in 1..n : i # j => l[i] # l[j]
          /\ \A i, j \in 1..n : i < j => rows[l[i]].created_at >= rows[l[j]].created_at}

\* a dashboard that reads the message without removing it
PeekFlash(fl, s) == fl

\* request.session.pop("flash_message", None): what the session holds afterwards
PopFlash(fl, s) == [fl EXCEPT ![s] = None]

NoResp ==
    [op |-> "none", session |-> None, id |-> 0, kind |-> "none", flash |-> None,
     listing |-> <<>>, body |-> NoBytes, filename |-> None, e |-> None, pdf |-> None]

NoReq == [session |-> None, id |-> 0, pdf_filename |-> None, e |-> None, pdf |-> None]

\* filename=f"Invoice_{invoice_id}.pdf"
DownloadName(id) == "Invoice_" \o ToString(id) \o ".pdf"

\* a download_invoice without the os.path.exists branch of its own
DownloadResponseOneSignal(rows, store, id) ==
    IF id \notin DOMAIN rows \/ rows[id].filename = None
       \/ rows[id].filename \notin DOMAIN store
    THEN [NoResp EXCEPT !.op = "download", !.id = id, !.kind = "404 Invoice not found"]
    ELSE [NoResp EXCEPT !.op = "download", !.id = id, !.kind = "file",
                        !.body = store[rows[id].filename],
                        !.filename = DownloadName(id)]

\* download_invoice's response for an id
DownloadResponse(rows, store, id) ==
    IF id \notin DOMAIN rows \/ rows[id].filename = None
    THEN [NoResp EXCEPT !.op = "download", !.id = id, !.kind = "404 Invoice not found"]
    ELSE IF rows[id].filename \notin DOMAIN store
    THEN [NoResp EXCEPT !.op = "download", !.id = id, !.kind = "404 PDF file missing"]
    ELSE [NoResp EXCEPT !.op = "download", !.id = id, !.kind = "file",
                        !.body = store[rows[id].filename],
                        !.filename = DownloadName(id)]

\* ---------------------------------------------------------------- Init

Init ==
    /\ invoices = <<>>
    /\ files = <<>>
    /\ flash = [s \in Sessions |-> None]
    /\ issued = {}
    /\ deleted = {}
    /\ pc = "idle"
    /\ req = NoReq
    /\ resp = NoResp

\* ------------------------------------------------------------- dashboard

Dashboard(s) ==
    /\ pc = "idle"
    /\ \E l \in OrderByCreatedAtDesc(invoices) :
         resp' = [NoResp EXCEPT !.op = "list", !.session = s, !.kind = "html",
                                !.listing = l, !.flash = flash[s]]
    /\ flash' = PopFlash(flash, s)
    /\ UNCHANGED <<invoices, files, issued, deleted, pc, req>>

\* -------------------------------------------------------- create_invoice

\* lines 131-141: the first commit stores the row
CreateRecord(s, t) ==
    /\ pc = "idle"
    /\ Cardinality(DOMAIN invoices) < MaxInvoices
    /\ LET id == NextId(invoices)
       IN /\ invoices' = Put(invoices, id, NewInvoice(t))
          /\ req' = [NoReq EXCEPT !.session = s, !.id = id]
    /\ pc' = "generate_pdf"
    /\ resp' = NoResp
    /\ UNCHANGED <<files, flash, issued, deleted>>

\* line 140 raises: nothing is stored and the exception leaves the handler
CreateRecordFails(s) ==
    /\ pc = "idle"
    /\ Cardinality(DOMAIN invoices) < MaxInvoices
    /\ resp' = [NoResp EXCEPT !.op = "create", !.session = s, !.kind = "raised",
                              !.e = "commit_error"]
    /\ UNCHANGED <<invoices, files, flash, issued, deleted, pc, req>>

\* line 145, generate_pdf (lines 71-92)
GeneratePdf(name, outcome) ==
    /\ pc = "generate_pdf"
    /\ name = Uuid4(issued)
    /\ issued' = issued \cup {name}
    /\ files' = WriteFile(files, name, req.id, outcome)
    /\ IF outcome = "ok"
       THEN /\ req' = [req EXCEPT !.pdf_filename = name, !.pdf = name]
            /\ pc' = "commit_sent"
       ELSE /\ req' = [req EXCEPT !.e = outcome, !.pdf = name]
            /\ pc' = "except"
    /\ UNCHANGED <<invoices, flash, deleted, resp>>

\* lines 148-150
CommitSent ==
    /\ pc = "commit_sent"
    /\ invoices' = [invoices EXCEPT ![req.id] = MarkSent(@, req.pdf_filename)]
    /\ pc' = "notify"
    /\ UNCHANGED <<files, flash, issued, deleted, req, resp>>

\* line 150 raises: the transaction is rolled back, the row keeps its values
CommitSentFails ==
    /\ pc = "commit_sent"
    /\ req' = [req EXCEPT !.e = "commit_error"]
    /\ pc' = "except"
    /\ UNCHANGED <<invoices, files, flash, issued, deleted, resp>>

\* lines 156-159 and 167
NotifyAndFlash ==
    /\ pc = "notify"
    /\ flash' = [flash EXCEPT ![req.session] = FlashSuccess]
    /\ resp' = [NoResp EXCEPT !.op = "create", !.session = req.session, !.id = req.id,
                              !.kind = "redirect", !.pdf = req.pdf]
    /\ pc' = "idle"
    /\ req' = NoReq
    /\ UNCHANGED <<invoices, files, issued, deleted>>

\* line 156 raises inside the try block
NotifyFails ==
    /\ pc = "notify"
    /\ req' = [req EXCEPT !.e = "notify_error"]
    /\ pc' = "except"
    /\ UNCHANGED <<invoices, files, flash, issued, deleted, resp>>

\* lines 161-167
ExceptHandler ==
    /\ pc = "except"
    /\ invoices' = [invoices EXCEPT ![req.id] = MarkError(@)]
    /\ flash' = [flash EXCEPT ![req.session] = FlashError]
    /\ resp' = [NoResp EXCEPT !.op = "create", !.session = req.session, !.id = req.id,
                              !.kind = "redirect", !.e = req.e, !.pdf = req.pdf]
    /\ pc' = "idle"
    /\ req' = NoReq
    /\ UNCHANGED <<files, issued, deleted>>

\* line 164 raises: the row keeps its values, the exception leaves the handler
ExceptHandlerFails ==
    /\ pc = "except"
    /\ resp' = [NoResp EXCEPT !.op = "create", !.session = req.session, !.id = req.id,
                              !.kind = "raised", !.e = req.e, !.pdf = req.pdf]
    /\ pc' = "idle"
    /\ req' = NoReq
    /\ UNCHANGED <<invoices, files, flash, issued, deleted>>

\* ------------------------------------------------------ download_invoice

Download(id) ==
    /\ pc = "idle"
    /\ resp' = DownloadResponse(invoices, files, id)
    /\ UNCHANGED <<invoices, files, flash, issued, deleted, pc, req>>

\* ------------------------------------------------------------ environment

\* the artifact of an invoice is removed from DATA_DIR by something other than
\* the application, between two requests
DeleteOutOfBand(name) ==
    /\ pc = "idle"
    /\ name \in DOMAIN files
    /\ \E id \in DOMAIN invoices : invoices[id].filename = name
    /\ files' = Remove(files, name)
    /\ deleted' = deleted \cup {name}
    /\ UNCHANGED <<invoices, flash, issued, pc, req, resp>>

Next ==
    \/ \E s \in Sessions : Dashboard(s)
    \/ \E s \in Sessions, t \in Times : CreateRecord(s, t)
    \/ \E s \in Sessions : CreateRecordFails(s)
    \/ \E name \in Names, outcome \in PdfOutcomes : GeneratePdf(name, outcome)
    \/ CommitSent
    \/ CommitSentFails
    \/ NotifyAndFlash
    \/ NotifyFails
    \/ ExceptHandler
    \/ ExceptHandlerFails
    \/ \E id \in 1..(MaxInvoices + 1) : Download(id)
    \/ \E name \in Names : DeleteOutOfBand(name)

Spec == Init /\ [][Next]_vars

\* ------------------------------------------------------------------ claims

RenderOrStoreErrors == {"template_error", "open_error", "convert_error"}

\* C1: every invoice row has a filename if and only if its status is Sent.
C1_ArtifactIffSent ==
    \A id \in DOMAIN invoices :
        (invoices[id].filename # None) <=> (invoices[id].status = "Sent")

\* C2: a creation whose rendering or file write failed leaves its row in status
\* Error with no filename.
C2_FailedCreationEndsError ==
    (resp.op = "create" /\ resp.e \in RenderOrStoreErrors)
        => /\ invoices[resp.id].status = "Error"
           /\ invoices[resp.id].filename = None

\* C3: a creation whose PDF conversion failed leaves no file of its own in
\* DATA_DIR.
C3_NoFileAfterFailedConversion ==
    (resp.op = "create" /\ resp.e = "convert_error") => resp.pdf \notin DOMAIN files

\* C4: a creation that ran through without an exception leaves its row Sent
\* with a filename, and every Sent row names a file whose complete PDF bytes are
\* in DATA_DIR unless that file was deleted out of band.
C4_SentHasArtifact ==
    /\ (resp.op = "create" /\ resp.kind = "redirect" /\ resp.e = None)
          => /\ invoices[resp.id].status = "Sent"
             /\ invoices[resp.id].filename # None
    /\ \A id \in DOMAIN invoices :
          invoices[id].status = "Sent"
             => /\ invoices[id].filename # None
                /\ invoices[id].filename \notin deleted
                      => /\ invoices[id].filename \in DOMAIN files
                         /\ files[invoices[id].filename] = PdfBytes(id)

C4_Witness ==
    /\ resp.op = "create" /\ resp.kind = "redirect" /\ resp.e = None
    /\ invoices[resp.id].status = "Sent"
    /\ invoices[resp.id].filename \in DOMAIN files

\* C5: a row changes status only from Processing to Sent or from Processing to
\* Error.
C5_OnlyProcessingLeaves ==
    [][\A id \in DOMAIN invoices :
          invoices'[id].status # invoices[id].status
             => /\ invoices[id].status = "Processing"
                /\ invoices'[id].status \in {"Sent", "Error"}]_vars

\* C6: when the notifier raises for a row committed as Sent, the request still
\* ends with the redirect and the row stays Sent with its filename.
C6_NotifyFailureKeepsSent ==
    (resp.op = "create" /\ resp.e = "notify_error")
        => /\ resp.kind = "redirect"
           /\ invoices[resp.id].status = "Sent"
           /\ invoices[resp.id].filename # None

\* C7: every create request ends with the redirect response; no exception
\* leaves create_invoice.
C7_CreateAlwaysRedirects ==
    resp.op = "create" => resp.kind = "redirect"

\* C8: a download answers "Invoice not found" when the id has no row or the row
\* has no filename, "PDF file missing" when the row's file is not in DATA_DIR,
\* and otherwise the file's bytes under the name Invoice_<id>.pdf.
C8_DownloadSignals ==
    [][\A id \in 1..(MaxInvoices + 1) :
          Download(id)
             => /\ resp'.op = "download" /\ resp'.id = id
                /\ (id \notin DOMAIN invoices \/ invoices[id].filename = None)
                      <=> resp'.kind = "404 Invoice not found"
                /\ (/\ id \in DOMAIN invoices
                    /\ invoices[id].filename # None
                    /\ invoices[id].filename \notin DOMAIN files)
                      <=> resp'.kind = "404 PDF file missing"
                /\ (resp'.kind \notin {"404 Invoice not found", "404 PDF file missing"})
                      => /\ resp'.kind = "file"
                         /\ resp'.body = files[invoices[id].filename]
                         /\ resp'.filename = DownloadName(id)]_vars

C8_Witness ==
    /\ resp.op = "download"
    /\ resp.kind = "404 PDF file missing"
    /\ resp.id \in DOMAIN invoices
    /\ invoices[resp.id].filename \in deleted

\* C9: after a dashboard call has returned a message, the next dashboard call of
\* the same session returns none.
C9_FlashAtMostOnce ==
    [][\A s \in Sessions :
          (resp.op = "list" /\ resp.session = s /\ resp.flash # None /\ Dashboard(s))
             => resp'.flash = None]_vars

C9_Witness ==
    /\ resp.op = "list"
    /\ resp.flash # None
    /\ flash[resp.session] = None

\* C10: the dashboard lists all rows in descending created_at, and of two rows
\* the one created later (the greater id) comes first.
C10_NewestFirst ==
    resp.op = "list"
        => /\ {resp.listing[i] : i \in DOMAIN resp.listing} = DOMAIN invoices
           /\ Len(resp.listing) = Cardinality(DOMAIN invoices)
           /\ \A i, j \in DOMAIN resp.listing :
                 i < j => /\ invoices[resp.listing[i]].created_at
                               >= invoices[resp.listing[j]].created_at
                          /\ resp.listing[i] > resp.listing[j]

\* C11: rows with equal created_at are listed in insertion order (the smaller
\* id first), so their relative order is the same on every dashboard call.
C11_TiesInInsertionOrder ==
    resp.op = "list"
        => \A i, j \in DOMAIN resp.listing :
              (/\ i < j
               /\ invoices[resp.listing[i]].created_at
                     = invoices[resp.listing[j]].created_at)
                 => resp.listing[i] < resp.listing[j]

\* C12: every download of an id that returns a file returns the bytes that the
\* creation of that id wrote; a download writes nothing, and no step changes the
\* filename of a row that has one or the contents of the file it names (a file
\* leaves DATA_DIR only by an out-of-band deletion).
C12_FetchIdempotent ==
    [][/\ \A id \in 1..(MaxInvoices + 1) :
             Download(id)
                => /\ UNCHANGED <<invoices, files, flash, issued, deleted>>
                   /\ resp'.kind = "file" => resp'.body = PdfBytes(id)
       /\ \A id \in DOMAIN invoices :
             invoices[id].filename # None
                => /\ id \in DOMAIN invoices'
                   /\ invoices'[id].filename = invoices[id].filename
                   /\ invoices[id].filename \in DOMAIN files
                         => IF invoices[id].filename \in DOMAIN files'
                            THEN files'[invoices[id].filename]
                                    = files[invoices[id].filename]
                            ELSE invoices[id].filename \in deleted']_vars

C12_Witness ==
    /\ resp.op = "download"
    /\ resp.id = 1
    /\ resp.kind = "file"
    /\ invoices[1].status = "Sent"
    /\ DOMAIN invoices = {1, 2}
    /\ invoices[2].filename \in DOMAIN files

\* C13: a step changes a row only if it is the row of the running
\* create_invoice, dashboard and download change no row, and no row is ever
\* removed.
C13_OnlyOwnRowWritten ==
    [][/\ DOMAIN invoices \subseteq DOMAIN invoices'
       /\ \A id \in DOMAIN invoices :
             invoices'[id] # invoices[id] => (pc # "idle" /\ id = req.id)
       /\ ((\E s \in Sessions : Dashboard(s))
              \/ (\E id \in 1..(MaxInvoices + 1) : Download(id)))
             => invoices' = invoices]_vars

C13_Witness ==
    /\ pc = "idle"
    /\ DOMAIN invoices = {1, 2}
    /\ invoices[1].status = "Sent"
    /\ invoices[2].status = "Error"

\* C14: every creation adds exactly one row, under an id that no row has and
\* that is greater than the id of every row created before.
C14_IdsUniqueMonotonic ==
    [][(\E s \in Sessions, t \in Times : CreateRecord(s, t))
          => \E id \in DOMAIN invoices' :
                /\ id \notin DOMAIN invoices
                /\ DOMAIN invoices' = DOMAIN invoices \cup {id}
                /\ \A old \in DOMAIN invoices : id > old
                /\ req'.id = id]_vars

C14_Witness ==
    /\ pc = "generate_pdf"
    /\ req.id = 2
    /\ DOMAIN invoices = {1, 2}

\* C15: whenever send_email_simulation is about to run for a row, that row is
\* already stored with status Sent and the filename generate_pdf returned.
C15_NotifyAfterSentCommit ==
    pc = "notify"
        => /\ invoices[req.id].status = "Sent"
           /\ invoices[req.id].filename = req.pdf_filename
           /\ req.pdf_filename # None

C15_Witness ==
    /\ pc = "notify"
    /\ invoices[req.id].status = "Sent"

\* C16: once the create_invoice that stored a row has ended, however it ended,
\* the row is no longer in Processing: every failure has become status Error.
C16_NoRowLeftProcessing ==
    pc = "idle" => \A id \in DOMAIN invoices : invoices[id].status # "Processing"

\* C17: no row has status Draft, so no listing and no download meets one.
C17_NeverDraft ==
    /\ \A id \in DOMAIN invoices : invoices[id].status \in {"Processing", "Sent", "Error"}
    /\ resp.op = "list"
          => \A i \in DOMAIN resp.listing : invoices[resp.listing[i]].status # "Draft"
    /\ (resp.op = "download" /\ resp.id \in DOMAIN invoices)
          => invoices[resp.id].status # "Draft"

C17_Witness ==
    /\ resp.op = "list"
    /\ Len(resp.listing) = 2
    /\ invoices[resp.listing[1]].status = "Sent"
    /\ invoices[resp.listing[2]].status = "Error"

\* C18: after a create_invoice that stored a row has ended, the message waiting
\* in its session is the success message exactly if the row is Sent and the
\* error message exactly if the row is Error.
C18_FlashMatchesOutcome ==
    (resp.op = "create" /\ resp.id \in DOMAIN invoices)
        => /\ (flash[resp.session] = FlashSuccess)
                 <=> (invoices[resp.id].status = "Sent")
           /\ (flash[resp.session] = FlashError)
                 <=> (invoices[resp.id].status = "Error")

====
